---------------------------- MODULE Spec2Model ----------------------------
(* restate-obstore: object-store operations (copy, delete, get, head, list,   *)
(* put, rename, sign) exposed as durably executed handlers.  The model holds  *)
(* the process bootstrap (main.py), the handler registration (restate.py),    *)
(* the Bound and the Unbound executor (bound.py, unbound.py), the request     *)
(* schemas, the durable host's checkpointed step and the storage client.      *)
EXTENDS Integers, Sequences, FiniteSets, TLC

(***************************************************************************)
(* Bounds of the model.                                                    *)
(***************************************************************************)
\* invocations the callers submit in one run of the service
MaxInv == 1
\* invocations submitted in a run that studies concurrent requests
MaxConc == 2
\* times the host starts a handler again (retries and replays), over all invocations
MaxRestarts == 1

InvIds == 1..(IF MaxInv > MaxConc THEN MaxInv ELSE MaxConc)

(***************************************************************************)
(* Values on the wire.  A JSON value keeps its JSON type: t is the type,   *)
(* s the text (one string, or the strings of an array), n the number.      *)
(***************************************************************************)
JStr(x) == [t |-> "str", s |-> <<x>>, n |-> 0]
JList(xs) == [t |-> "list", s |-> xs, n |-> 0]
JBool(b) == [t |-> "bool", s |-> <<IF b THEN "true" ELSE "false">>, n |-> 0]
JNum(k) == [t |-> "num", s |-> <<>>, n |-> k]

HttpMethod == {"GET", "PUT", "POST", "HEAD", "PATCH", "TRACE", "DELETE", "OPTIONS", "CONNECT"}

(***************************************************************************)
(* URLs.  AnyUrl accepts a text of the form scheme://rest; from_url picks  *)
(* the store class from the scheme and fails on a scheme it does not know. *)
(***************************************************************************)
UrlScheme(text) ==
    CASE text = "s3://bucket" -> "s3"
      [] text = "s3://other" -> "s3"
      [] text = "gs://bucket" -> "gs"
      [] text = "az://container" -> "az"
      [] text = "file:///data" -> "file"
      [] text = "memory:///" -> "memory"
      [] text = "ftp://host" -> "ftp"
      [] OTHER -> ""

\* pydantic AnyUrl: a text without a scheme does not validate
AnyUrlOk(text) == UrlScheme(text) # ""

\* obstore.store.from_url: the store class of a URL, "" when the scheme is unknown
StoreClass(text) ==
    CASE UrlScheme(text) = "s3" -> "S3Store"
      [] UrlScheme(text) = "gs" -> "GCSStore"
      [] UrlScheme(text) = "az" -> "AzureStore"
      [] UrlScheme(text) = "file" -> "LocalStore"
      [] UrlScheme(text) = "memory" -> "MemoryStore"
      [] OTHER -> ""

\* isinstance(store, SignCapableStore)
SignCapableStore(cls) == cls \in {"AzureStore", "GCSStore", "S3Store"}

(***************************************************************************)
(* Request schemas (pydantic models).  A field is                          *)
(*   attr  the attribute of the validated request,                         *)
(*   key   the key read from the payload (the alias when there is one),    *)
(*   type  the declared type,                                              *)
(*   req   whether the field is required,                                  *)
(*   dflt  the default of an optional field.                               *)
(***************************************************************************)
Fld(attr, key, type, req, dflt) ==
    [attr |-> attr, key |-> key, type |-> type, req |-> req, dflt |-> dflt]

NoDefault == JStr("")

CopyRequest ==
    { Fld("from_", "from", "str", TRUE, NoDefault),
      Fld("to", "to", "str", TRUE, NoDefault),
      Fld("overwrite", "overwrite", "bool", FALSE, JBool(TRUE)) }

DeleteRequest == { Fld("paths", "paths", "paths", TRUE, NoDefault) }

GetRequest == { Fld("path", "path", "str", TRUE, NoDefault) }

HeadRequest == { Fld("path", "path", "str", TRUE, NoDefault) }

ListRequest == {}

PutRequest == {}

RenameRequest ==
    { Fld("from_", "from", "str", TRUE, NoDefault),
      Fld("to", "to", "str", TRUE, NoDefault),
      Fld("overwrite", "overwrite", "bool", FALSE, JBool(TRUE)) }

SignRequest ==
    { Fld("method", "method", "method", TRUE, NoDefault),
      Fld("paths", "paths", "paths", TRUE, NoDefault),
      Fld("expires_in", "expires_in", "duration", TRUE, NoDefault) }

BoundSchema(op) ==
    CASE op = "copy" -> CopyRequest
      [] op = "delete" -> DeleteRequest
      [] op = "get" -> GetRequest
      [] op = "head" -> HeadRequest
      [] op = "list" -> ListRequest
      [] op = "put" -> PutRequest
      [] op = "rename" -> RenameRequest
      [] op = "sign" -> SignRequest

\* a url field declared as a plain string
UrlField_PlainStr == Fld("url", "url", "str", TRUE, NoDefault)

\* url: AnyUrl = _field  (no default: the field is required)
UrlField == Fld("url", "url", "url", TRUE, NoDefault)

\* class XRequest(bound.XRequest): url: AnyUrl
UnboundSchema(op) == BoundSchema(op) \cup {UrlField}

Schema(mode, op) == IF mode = "unbound" THEN UnboundSchema(op) ELSE BoundSchema(op)

\* model_config names json_schema_extra only, so pydantic's default for
\* undeclared keys applies: "ignore" (the key is dropped, the request is valid)
ExtraPolicy(mode, op) == "ignore"

\* ISO-8601 durations the callers use, in seconds
DurationSeconds(text) ==
    CASE text = "PT1H" -> 3600
      [] text = "PT30M" -> 1800
      [] OTHER -> -1

\* does the JSON value v validate as the declared type
TypeOk(type, v) ==
    CASE type = "str" -> v.t = "str"
      [] type = "bool" -> \/ v.t = "bool"
                          \/ v.t = "str" /\ v.s[1] \in {"true", "false"}
      [] type = "paths" -> v.t \in {"str", "list"}
      [] type = "method" -> v.t = "str" /\ v.s[1] \in HttpMethod
      [] type = "duration" -> \/ v.t = "num" /\ v.n >= 0
                              \/ v.t = "str" /\ DurationSeconds(v.s[1]) >= 0
      [] type = "url" -> v.t = "str" /\ AnyUrlOk(v.s[1])

\* the validated value of a field: booleans and durations are converted
Convert(type, v) ==
    CASE type = "bool" -> JBool(v.s[1] = "true")
      [] type = "duration" -> IF v.t = "num" THEN v ELSE JNum(DurationSeconds(v.s[1]))
      [] OTHER -> v

Keys(schema) == { f.key : f \in schema }

\* pydantic validation of a payload (a function from keys to JSON values)
Validates(schema, policy, payload) ==
    /\ \A f \in schema :
          IF f.key \in DOMAIN payload
             THEN TypeOk(f.type, payload[f.key])
             ELSE ~f.req
    /\ policy = "forbid" => DOMAIN payload \subseteq Keys(schema)

FieldOf(schema, attr) == CHOOSE f \in schema : f.attr = attr

\* the validated request: a function from attributes to values, defaults applied
Parse(schema, payload) ==
    [ a \in { f.attr : f \in schema } |->
        LET f == FieldOf(schema, a)
        IN IF f.key \in DOMAIN payload
              THEN Convert(f.type, payload[f.key])
              ELSE f.dflt ]


(***************************************************************************)
(* Results.  kind is "ok" or the kind of the exception raised; shape is    *)
(* "scalar", "seq" or "none"; items are the values carried; who names what *)
(* an exception is about (a location, a store).                            *)
(***************************************************************************)
Item(url, method, path, exp, content) ==
    [url |-> url, method |-> method, path |-> path, exp |-> exp, content |-> content]

Ok(shape, items) == [kind |-> "ok", shape |-> shape, items |-> items, who |-> ""]
Err(kind, who) == [kind |-> kind, shape |-> "none", items |-> <<>>, who |-> who]
None == Ok("none", <<>>)
NoResult == Err("none", "")

(***************************************************************************)
(* The storage client (obstore).  A store handle is one instance returned  *)
(* by from_url; the objects live in the backend its URL names.             *)
(***************************************************************************)
Locs == {"a", "b"}
Absent == ""

Handle(id, url) == [id |-> id, cls |-> StoreClass(url), url |-> url]
NoHandle == [id |-> 0, cls |-> "", url |-> ""]

\* a client call and its arguments
Call(fn, src, dst, overwrite, paths, method, exp) ==
    [fn |-> fn, src |-> src, dst |-> dst, overwrite |-> overwrite,
     paths |-> paths, method |-> method, exp |-> exp]
NoCall == Call("", "", "", FALSE, JStr(""), "", 0)

Eff(out, objs) == [out |-> out, objs |-> objs]

\* store.copy_async(from, to, overwrite=...)
copy_async(objs, src, dst, overwrite) ==
    IF objs[src] = Absent THEN Eff(Err("NotFoundError", src), objs)
    ELSE IF objs[dst] # Absent /\ ~overwrite THEN Eff(Err("AlreadyExistsError", dst), objs)
    ELSE Eff(None, [objs EXCEPT ![dst] = objs[src]])

\* store.rename_async(from, to, overwrite=...)
rename_async(objs, src, dst, overwrite) ==
    IF objs[src] = Absent THEN Eff(Err("NotFoundError", src), objs)
    ELSE IF objs[dst] # Absent /\ ~overwrite THEN Eff(Err("AlreadyExistsError", dst), objs)
    ELSE IF src = dst THEN Eff(None, objs)
    ELSE Eff(None, [objs EXCEPT ![dst] = objs[src], ![src] = Absent])

\* store.head_async(path)
head_async(objs, path) ==
    IF objs[path] = Absent THEN Eff(Err("NotFoundError", path), objs)
    ELSE Eff(Ok("scalar", <<Item("", "", path, 0, objs[path])>>), objs)

Range(xs) == { xs[k] : k \in DOMAIN xs }

\* store.delete_async(paths).  What the client does with a location that is
\* not there depends on the backend: it raises for it (after deleting any
\* subset of the others), or it deletes what is there and reports nothing.
delete_async(objs, paths) ==
    LET want == Range(paths.s)
        missing == { l \in want : objs[l] = Absent }
        Without(gone) == [l \in Locs |-> IF l \in gone THEN Absent ELSE objs[l]]
    IN  { Eff(None, Without(want)) }
        \cup { Eff(Err("NotFoundError", m), Without(gone)) :
                 m \in missing, gone \in SUBSET (want \ missing) }

\* obstore.sign_async(store, method, paths, expires_in): a URL for a single
\* path, a list of URLs (one per path, in order) for a sequence
sign_async(store, method, paths, exp) ==
    Ok(IF paths.t = "str" THEN "scalar" ELSE "seq",
       [k \in DOMAIN paths.s |-> Item(store.url, method, paths.s[k], exp, "")])

\* every way the client can complete a call made on a store
ClientOutcomes(store, objs, c) ==
    CASE c.fn = "copy_async" -> {copy_async(objs, c.src, c.dst, c.overwrite)}
      [] c.fn = "rename_async" -> {rename_async(objs, c.src, c.dst, c.overwrite)}
      [] c.fn = "head_async" -> {head_async(objs, c.src)}
      [] c.fn = "delete_async" -> delete_async(objs, c.paths)
      [] c.fn = "sign_async" -> {Eff(sign_async(store, c.method, c.paths, c.exp), objs)}

\* a call can also fail on the way to the backend, with no effect
BackendError(objs) == Eff(Err("GenericError", ""), objs)

(***************************************************************************)
(* Storage facade (bound.py): what each function asks of the client, and   *)
(* what it returns from the client's answer.                               *)
(***************************************************************************)
\* an exception raised without calling the client: src is its kind, dst what it names
Raise(kind, who) == Call("raise", kind, who, FALSE, JStr(""), "", 0)

\* a copy that leaves overwrite to the client's default
copy_DropsOverwrite(request) ==
    Call("copy_async", request.from_.s[1], request.to.s[1], TRUE, JStr(""), "", 0)

copy(request) ==
    Call("copy_async", request.from_.s[1], request.to.s[1],
         request.overwrite.s[1] = "true", JStr(""), "", 0)

delete(request) == Call("delete_async", "", "", FALSE, request.paths, "", 0)

get(request) == Raise("NotImplementedError", "")

head(request) == Call("head_async", request.path.s[1], "", FALSE, JStr(""), "", 0)

list(request) == Raise("NotImplementedError", "")

put(request) == Raise("NotImplementedError", "")

\* a rename that copies and leaves the source to a later delete
rename_CopyFirst(request) ==
    Call("copy_async", request.from_.s[1], request.to.s[1],
         request.overwrite.s[1] = "true", JStr(""), "", 0)

rename(request) ==
    Call("rename_async", request.from_.s[1], request.to.s[1],
         request.overwrite.s[1] = "true", JStr(""), "", 0)

sign(request) ==
    Call("sign_async", "", "", FALSE, request.paths, request.method.s[1],
         request.expires_in.n)

Facade(op, request) ==
    CASE op = "copy" -> copy(request)
      [] op = "delete" -> delete(request)
      [] op = "get" -> get(request)
      [] op = "head" -> head(request)
      [] op = "list" -> list(request)
      [] op = "put" -> put(request)
      [] op = "rename" -> rename(request)
      [] op = "sign" -> sign(request)

\* a response that always carries a list
SignResponse_AlwaysList(signed) == Ok("seq", signed.items)

\* SignResponse(signed=paths): a str stays a str, a sequence stays a sequence
SignResponse(signed) == Ok(signed.shape, signed.items)

\* ObjectMeta.model_validate(meta)
ObjectMeta(meta) == Ok("scalar", meta.items)

\* the value the facade function returns; an exception of the client passes through
FacadeReturn(op, out) ==
    IF out.kind # "ok" THEN out
    ELSE CASE op = "head" -> ObjectMeta(out)
           [] op = "sign" -> SignResponse(out)
           [] OTHER -> None


(***************************************************************************)
(* Executors (bound.py, unbound.py) and the registration (restate.py).     *)
(***************************************************************************)
NoExecutor == [kind |-> "", mode |-> "", store |-> NoHandle]

\* bound.create_executor(store)
create_executor(store) ==
    IF SignCapableStore(store.cls)
       THEN [kind |-> "SignCapableExecutor", mode |-> "bound", store |-> store]
       ELSE [kind |-> "Executor", mode |-> "bound", store |-> store]

\* unbound.Executor(factory)
UnboundExecutor == [kind |-> "Executor", mode |-> "unbound", store |-> NoHandle]

\* a registration that adds sign whatever the executor is
register_bound_service_AlwaysSign(executor) ==
    {"copy", "delete", "get", "head", "list", "put", "rename", "sign"}

\* the handlers register_bound_service adds to the service
register_bound_service(executor) ==
    {"copy", "delete", "get", "head", "list", "put", "rename"}
    \cup (IF executor.kind = "SignCapableExecutor" THEN {"sign"} ELSE {})

\* the handlers register_unbound_service adds to the service
register_unbound_service(executor) ==
    {"copy", "delete", "get", "head", "list", "put", "rename", "sign"}

register_service(executor) ==
    IF executor.mode = "bound" THEN register_bound_service(executor)
    ELSE IF executor.mode = "unbound" THEN register_unbound_service(executor)
    ELSE {}

create_service(executor) == register_service(executor)

\* a handler that calls the executor once more after its step
HandlerBody_CallAfterStep(mode, op) ==
    << [kind |-> "run_typed", name |-> op, fn |-> op],
       [kind |-> "call", name |-> op, fn |-> op] >>

\* a handler that calls the executor without a step around the call
HandlerBody_NoStep(mode, op) == << [kind |-> "call", name |-> op, fn |-> op] >>

\* handlers whose step is named after the mode in Unbound mode
HandlerBody_ModeNamed(mode, op) ==
    << [kind |-> "run_typed", name |-> IF mode = "unbound" THEN "run" ELSE op,
        fn |-> op] >>

\* the body of a handler: the statements it runs, in order.  Every handler is
\* one ctx.run_typed(name, executor.<op>, request=request) whose value it returns.
HandlerBody(mode, op) == << [kind |-> "run_typed", name |-> op, fn |-> op] >>

\* a factory that hands out one shared instance
DefaultObjectStoreFactory_create_Shared(url, fresh) ==
    IF StoreClass(url) = "" THEN NoHandle ELSE Handle(1, url)

\* DefaultObjectStoreFactory.create(url): a new store instance per call, or
\* the exception of from_url
DefaultObjectStoreFactory_create(url, fresh) ==
    IF StoreClass(url) = "" THEN NoHandle ELSE Handle(fresh, url)

\* a sign without the capability check
SignGate_NoCheck(store, call) == call

\* unbound.Executor.sign's check of the resolved store
SignGate(store, call) ==
    IF SignCapableStore(store.cls) THEN call ELSE Raise("ValueError", store.cls)

\* an Unbound executor whose get, list and put raise before resolving a store
ExecutorPlan_ResolveIfImplemented(executor, fn, request, fresh) ==
    IF executor.mode = "bound"
       THEN [created |-> FALSE, store |-> executor.store, call |-> Facade(fn, request)]
       ELSE IF fn \in {"get", "list", "put"}
       THEN [created |-> FALSE, store |-> NoHandle, call |-> Facade(fn, request)]
       ELSE LET store == DefaultObjectStoreFactory_create(request.url.s[1], fresh)
            IN  [created |-> TRUE,
                 store |-> store,
                 call |-> IF store = NoHandle THEN Raise("GenericError", request.url.s[1])
                          ELSE IF fn = "sign" THEN SignGate(store, Facade(fn, request))
                          ELSE Facade(fn, request)]

\* what one execution of executor.<fn>(request) does before it awaits the
\* client: the store it resolves (created: through the factory) and the call
\* it makes on it, or the exception it raises instead
ExecutorPlan(executor, fn, request, fresh) ==
    IF executor.mode = "bound"
       THEN [created |-> FALSE, store |-> executor.store, call |-> Facade(fn, request)]
       ELSE LET store == DefaultObjectStoreFactory_create(request.url.s[1], fresh)
            IN  [created |-> TRUE,
                 store |-> store,
                 call |-> IF store = NoHandle THEN Raise("GenericError", request.url.s[1])
                          ELSE IF fn = "sign" THEN SignGate(store, Facade(fn, request))
                          ELSE Facade(fn, request)]

(***************************************************************************)
(* State.                                                                  *)
(***************************************************************************)
VARIABLES
    phase,       \* "boot", "serving", or "failed" when the bootstrap raised
    executor,    \* the executor main.py built
    handlers,    \* the handler names registered on the service
    objects,     \* the backends' contents: URL -> location -> content
    nextHandle,  \* identity of the next store instance from_url returns
    inv          \* the invocations, by id

vars == <<phase, executor, handlers, objects, nextHandle, inv>>

StoreUrls == {"s3://bucket", "s3://other", "gs://bucket", "az://container",
              "file:///data", "memory:///"}

Empty == [k \in {} |-> JStr("")]

\* an invocation the host has not received yet
Idle ==
    [pc |-> "idle", op |-> "", payload |-> Empty, request |-> Empty,
     attempt |-> 0, ip |-> 1, inStep |-> FALSE, inCall |-> FALSE,
     store |-> NoHandle, call |-> NoCall, outcome |-> NoResult,
     journal |-> <<>>, result |-> NoResult, response |-> NoResult,
     calls |-> 0, execCalls |-> 0, stepCalls |-> 0,
     creates |-> 0, execCreates |-> 0, made |-> {}, used |-> {}]

Seed(b) == [l \in Locs |-> IF l = "a" THEN "v1" ELSE b]

\* the service before main.py ran; every backend holds object a, and b or not
InitWith(seeds) ==
    /\ phase = "boot"
    /\ executor = NoExecutor
    /\ handlers = {}
    /\ \E b \in seeds : objects = [u \in StoreUrls |-> Seed(b)]
    /\ nextHandle = 1
    /\ inv = [i \in InvIds |-> Idle]

Set(i, r) == inv' = [inv EXCEPT ![i] = r]

RECURSIVE RestartsUpTo(_)
RestartsUpTo(n) ==
    IF n = 0 THEN 0
    ELSE RestartsUpTo(n - 1) + (IF inv[n].attempt > 1 THEN inv[n].attempt - 1 ELSE 0)

\* restarts the host has made so far
Restarts == RestartsUpTo(IF MaxInv > MaxConc THEN MaxInv ELSE MaxConc)


(***************************************************************************)
(* Bootstrap (main.py): with a configured URL the store is built once and  *)
(* bound to the executor; without one the executor resolves per request.   *)
(* url = "" stands for settings.obstore.url = None.                        *)
(***************************************************************************)
Startup(url) ==
    /\ phase = "boot"
    /\ IF url = ""
          THEN /\ executor' = UnboundExecutor
               /\ handlers' = create_service(UnboundExecutor)
               /\ phase' = "serving"
               /\ UNCHANGED nextHandle
          ELSE IF StoreClass(url) = ""
          THEN /\ phase' = "failed"
               /\ UNCHANGED <<executor, handlers, nextHandle>>
          ELSE /\ executor' = create_executor(Handle(nextHandle, url))
               /\ handlers' = create_service(create_executor(Handle(nextHandle, url)))
               /\ phase' = "serving"
               /\ nextHandle' = nextHandle + 1
    /\ UNCHANGED <<objects, inv>>

(***************************************************************************)
(* The durable host and one invocation.                                    *)
(***************************************************************************)
\* a caller submits a call of handler op with a payload.  The host knows
\* the registered handlers; it deserialises the payload with the handler's
\* request model and starts the handler on the validated request; a payload
\* that does not validate ends the invocation there.
Receive(i, op, payload) ==
    /\ phase = "serving"
    /\ inv[i].pc = "idle"
    /\ i > 1 => inv[i - 1].pc # "idle"
    /\ LET schema == Schema(executor.mode, op)
           policy == ExtraPolicy(executor.mode, op)
           r0 == [inv[i] EXCEPT !.op = op, !.payload = payload]
       IN  IF op \notin handlers
              THEN Set(i, [r0 EXCEPT !.pc = "done", !.response = Err("NoHandler", op)])
           ELSE IF ~Validates(schema, policy, payload)
              THEN Set(i, [r0 EXCEPT !.pc = "done",
                                     !.response = Err("ValidationError", "")])
           ELSE Set(i, [r0 EXCEPT !.pc = "handler", !.attempt = 1, !.ip = 1,
                                  !.request = Parse(schema, payload)])
    /\ UNCHANGED <<phase, executor, handlers, objects, nextHandle>>

Body(i) == HandlerBody(executor.mode, inv[i].op)

Recorded(i, name) == { k \in DOMAIN inv[i].journal : inv[i].journal[k].name = name }

\* the handler runs its next statement.  ctx.run_typed returns the recorded
\* result when the journal holds the step; otherwise it runs the action,
\* executor.<fn>(request), here up to its await of the client.  A statement
\* that is a plain call of the executor runs it outside any step.
HandlerStep(i) ==
    /\ inv[i].pc = "handler"
    /\ inv[i].ip <= Len(Body(i))
    /\ LET stmt == Body(i)[inv[i].ip]
           plan == ExecutorPlan(executor, stmt.fn, inv[i].request, nextHandle)
           fresh == plan.created /\ plan.store # NoHandle
           r1 == [inv[i] EXCEPT
                    !.inStep = (stmt.kind = "run_typed"),
                    !.creates = IF plan.created THEN @ + 1 ELSE @,
                    !.execCreates = IF plan.created THEN @ + 1 ELSE @,
                    !.made = IF fresh THEN @ \cup {plan.store.id} ELSE @,
                    !.used = IF plan.store # NoHandle THEN @ \cup {plan.store.id} ELSE @]
       IN  IF stmt.kind = "run_typed" /\ Recorded(i, stmt.name) # {}
              THEN LET k == CHOOSE k \in Recorded(i, stmt.name) : TRUE
                   IN  /\ Set(i, [inv[i] EXCEPT !.result = inv[i].journal[k].result,
                                                !.ip = @ + 1])
                       /\ UNCHANGED nextHandle
              ELSE /\ nextHandle' = IF fresh THEN nextHandle + 1 ELSE nextHandle
                   /\ IF plan.call.fn = "raise"
                         THEN Set(i, [r1 EXCEPT
                                        !.pc = "stepdone",
                                        !.outcome = Err(plan.call.src, plan.call.dst)])
                         ELSE Set(i, [r1 EXCEPT
                                        !.pc = "calling", !.inCall = TRUE,
                                        !.store = plan.store, !.call = plan.call,
                                        !.calls = @ + 1, !.execCalls = @ + 1])
    /\ UNCHANGED <<phase, executor, handlers, objects>>

\* the client completes the call: its effect on the backend and its answer
ClientComplete(i) ==
    /\ inv[i].pc = "calling"
    /\ LET url == inv[i].store.url
           stmt == Body(i)[inv[i].ip]
       IN  \E e \in ClientOutcomes(inv[i].store, objects[url], inv[i].call) :
              /\ objects' = [objects EXCEPT ![url] = e.objs]
              /\ Set(i, [inv[i] EXCEPT !.pc = "stepdone", !.inCall = FALSE,
                                       !.store = NoHandle, !.call = NoCall,
                                       !.outcome = FacadeReturn(stmt.fn, e.out)])
    /\ UNCHANGED <<phase, executor, handlers, nextHandle>>

\* the call fails on the way to the backend (network, credentials): the
\* client raises and the backend is as it was
ClientFail(i) ==
    /\ inv[i].pc = "calling"
    /\ LET stmt == Body(i)[inv[i].ip]
           e == BackendError(objects[inv[i].store.url])
       IN  Set(i, [inv[i] EXCEPT !.pc = "stepdone", !.inCall = FALSE,
                                 !.store = NoHandle, !.call = NoCall,
                                 !.outcome = FacadeReturn(stmt.fn, e.out)])
    /\ UNCHANGED <<phase, executor, handlers, objects, nextHandle>>

\* the executor call returned or raised.  Inside a step the host records a
\* returned value in the journal; an exception (none here is a TerminalError)
\* ends the attempt, and the host will retry the invocation.
StepExit(i) ==
    /\ inv[i].pc = "stepdone"
    /\ LET stmt == Body(i)[inv[i].ip]
           entry == [name |-> stmt.name, result |-> inv[i].outcome]
       IN  IF inv[i].outcome.kind = "ok"
              THEN Set(i, [inv[i] EXCEPT
                             !.pc = "handler", !.inStep = FALSE, !.ip = @ + 1,
                             !.result = inv[i].outcome, !.outcome = NoResult,
                             !.journal = IF inv[i].inStep THEN Append(@, entry) ELSE @,
                             !.stepCalls = IF inv[i].inStep THEN inv[i].execCalls ELSE @])
              ELSE Set(i, [inv[i] EXCEPT !.pc = "backoff", !.inStep = FALSE])
    /\ UNCHANGED <<phase, executor, handlers, objects, nextHandle>>

\* the handler returned: the host records the output and answers the caller
Respond(i) ==
    /\ inv[i].pc = "handler"
    /\ inv[i].ip > Len(Body(i))
    /\ Set(i, [inv[i] EXCEPT !.pc = "done", !.response = inv[i].result])
    /\ UNCHANGED <<phase, executor, handlers, objects, nextHandle>>

\* the attempt is lost (process crash, connection loss) wherever it stands; a
\* client call in flight has not taken effect, a completed one has
Crash(i) ==
    /\ inv[i].pc \in {"handler", "calling", "stepdone"}
    /\ Restarts < MaxRestarts
    /\ Set(i, [inv[i] EXCEPT !.pc = "backoff", !.inStep = FALSE, !.inCall = FALSE,
                             !.store = NoHandle, !.call = NoCall])
    /\ UNCHANGED <<phase, executor, handlers, objects, nextHandle>>

\* the host starts the handler again on the same payload, with the journal kept
Retry(i) ==
    /\ inv[i].pc = "backoff"
    /\ Restarts < MaxRestarts
    /\ Set(i, [inv[i] EXCEPT !.pc = "handler", !.attempt = @ + 1, !.ip = 1,
                             !.outcome = NoResult, !.result = NoResult,
                             !.execCalls = 0, !.execCreates = 0])
    /\ UNCHANGED <<phase, executor, handlers, objects, nextHandle>>

\* the host goes on retrying, as Retry does, past the restarts that are counted
Redeliver(i) ==
    /\ inv[i].pc = "backoff"
    /\ Restarts >= MaxRestarts
    /\ Set(i, [inv[i] EXCEPT !.pc = "handler", !.ip = 1,
                             !.outcome = NoResult, !.result = NoResult,
                             !.execCalls = 0, !.execCreates = 0])
    /\ UNCHANGED <<phase, executor, handlers, objects, nextHandle>>

\* a run of the service: the configuration is one of configs, the callers
\* submit up to n invocations drawn from pool
NextWith(configs, pool, n) ==
    \/ \E url \in configs : Startup(url)
    \/ \E i \in 1..n : \E r \in pool : Receive(i, r.op, r.payload)
    \/ \E i \in InvIds : HandlerStep(i)
    \/ \E i \in InvIds : ClientComplete(i)
    \/ \E i \in InvIds : ClientFail(i)
    \/ \E i \in InvIds : StepExit(i)
    \/ \E i \in InvIds : Respond(i)
    \/ \E i \in InvIds : Crash(i)
    \/ \E i \in InvIds : Retry(i)

(***************************************************************************)
(* What the callers send.                                                  *)
(***************************************************************************)
Req(op, payload) == [op |-> op, payload |-> payload]
WithUrl(url, payload) == ("url" :> JStr(url)) @@ payload

FromTo(src, dst) == ("from" :> JStr(src)) @@ ("to" :> JStr(dst))
Overwrite(b) == "overwrite" :> JBool(b)
Path(x) == "path" :> JStr(x)
Paths(v) == "paths" :> v
SignOf(method, paths, exp) ==
    ("method" :> JStr(method)) @@ ("paths" :> paths) @@ ("expires_in" :> exp)

S3 == "s3://bucket"
File == "file:///data"

\* well-formed requests: every handler, every shape of its operands
GoodRequests ==
    { Req("copy", WithUrl(S3, FromTo("a", "b"))),
      Req("copy", WithUrl(S3, FromTo("a", "b") @@ Overwrite(FALSE))),
      Req("copy", WithUrl(S3, FromTo("a", "b") @@ Overwrite(TRUE))),
      Req("rename", WithUrl(S3, FromTo("a", "b"))),
      Req("rename", WithUrl(S3, FromTo("a", "b") @@ Overwrite(FALSE))),
      Req("delete", WithUrl(S3, Paths(JStr("a")))),
      Req("delete", WithUrl(S3, Paths(JList(<<"a", "b">>)))),
      Req("get", WithUrl(S3, Path("a"))),
      Req("head", WithUrl(S3, Path("a"))),
      Req("head", Path("b")),
      Req("list", WithUrl(S3, Empty)),
      Req("put", WithUrl(S3, Empty)),
      Req("sign", WithUrl(S3, SignOf("GET", JStr("a"), JStr("PT1H")))),
      Req("sign", WithUrl(S3, SignOf("PUT", JList(<<"b", "a">>), JNum(60)))),
      Req("sign", WithUrl(S3, SignOf("GET", JList(<<"a">>), JStr("PT30M")))),
      Req("sign", WithUrl(File, SignOf("GET", JStr("a"), JStr("PT1H")))),
      Req("head", WithUrl("ftp://host", Path("a"))) }

\* requests with something wrong or something more
OddRequests ==
    { Req("copy", WithUrl(S3, "from" :> JStr("a"))),
      Req("head", WithUrl(S3, "path" :> JNum(5))),
      Req("put", WithUrl("not a url", Empty)),
      Req("head", WithUrl(S3, Path("a") @@ ("bogus" :> JStr("x")))) }

Pool == GoodRequests \cup OddRequests
Configs == {"", S3}

Init == InitWith({Absent, "v2"})
Next == NextWith(Configs, Pool, MaxInv)
Spec == Init /\ [][Next]_vars

\* concurrent requests on two stores
ConcPool ==
    { Req("sign", WithUrl(S3, SignOf("GET", JStr("a"), JStr("PT1H")))),
      Req("sign", WithUrl(File, SignOf("GET", JStr("a"), JStr("PT1H")))) }

InitConc == InitWith({Absent})
NextConc == NextWith({"", S3}, ConcPool, MaxConc)
SpecConc == InitConc /\ [][NextConc]_vars

\* every configuration main.py can be given
AllConfigs == {"", "ftp://host"} \cup StoreUrls
RegisterPool ==
    { Req("head", WithUrl(S3, Path("a"))),
      Req("sign", WithUrl(S3, SignOf("GET", JStr("a"), JStr("PT1H")))),
      Req("sign", WithUrl(File, SignOf("GET", JStr("a"), JStr("PT1H")))) }

InitRegister == InitWith({Absent})
NextRegister == NextWith(AllConfigs, RegisterPool, MaxInv)
SpecRegister == InitRegister /\ [][NextRegister]_vars

\* a rename over whatever is at the destination, and the heads that follow it
RenamePool ==
    { Req("rename", WithUrl(S3, FromTo("a", "b") @@ Overwrite(TRUE))),
      Req("head", WithUrl(S3, Path("a"))),
      Req("head", WithUrl(S3, Path("b"))) }

\* a caller that sends each request when the one before it was answered
Sequential(i) == \A k \in 1..(i - 1) : inv[k].pc = "done"

InitRename == InitWith({Absent, "v2"})
NextRename ==
    \/ \E url \in {"", S3} : Startup(url)
    \/ \E i \in 1..MaxConc : \E r \in RenamePool :
          Sequential(i) /\ Receive(i, r.op, r.payload)
    \/ \E i \in InvIds : HandlerStep(i)
    \/ \E i \in InvIds : ClientComplete(i)
    \/ \E i \in InvIds : ClientFail(i)
    \/ \E i \in InvIds : StepExit(i)
    \/ \E i \in InvIds : Respond(i)
    \/ \E i \in InvIds : Crash(i)
    \/ \E i \in InvIds : Retry(i)
SpecRename == InitRename /\ [][NextRename]_vars

\* a Bound service whose backend answers every call, under a host that keeps
\* running what it has started: the handler's next statement is run, the
\* client answers, the host records and responds, and it retries an attempt
\* that ended with an exception for as long as the invocation is not done
LivePool ==
    { Req("get", Path("a")),
      Req("list", Empty),
      Req("put", Empty),
      Req("head", Path("a")),
      Req("sign", SignOf("GET", JStr("a"), JStr("PT1H"))) }

InitLive == InitWith({Absent})
NextLive ==
    \/ \E url \in {S3, File} : Startup(url)
    \/ \E i \in 1..MaxInv : \E r \in LivePool : Receive(i, r.op, r.payload)
    \/ \E i \in InvIds : HandlerStep(i)
    \/ \E i \in InvIds : ClientComplete(i)
    \/ \E i \in InvIds : StepExit(i)
    \/ \E i \in InvIds : Respond(i)
    \/ \E i \in InvIds : Crash(i)
    \/ \E i \in InvIds : Retry(i)
    \/ \E i \in InvIds : Redeliver(i)

FairLive ==
    /\ WF_vars(\E i \in InvIds : HandlerStep(i))
    /\ WF_vars(\E i \in InvIds : ClientComplete(i))
    /\ WF_vars(\E i \in InvIds : StepExit(i))
    /\ WF_vars(\E i \in InvIds : Respond(i))
    /\ WF_vars(\E i \in InvIds : Retry(i) \/ Redeliver(i))

SpecLive == InitLive /\ [][NextLive]_vars /\ FairLive

(***************************************************************************)
(* Properties.                                                             *)
(***************************************************************************)
StepCompleted(i) == inv[i].journal # <<>>

\* C1 (as stated): an invocation whose step completed has made exactly the
\* storage-client calls of the one execution that completed the step.
C1_CallsAreThoseOfCompletingExecution ==
    \A i \in InvIds : StepCompleted(i) => inv[i].calls = inv[i].stepCalls

\* C1 (amended): once the step of an invocation is recorded as completed,
\* no retry or replay makes a further storage-client call or changes the
\* record, and the invocation ends with the recorded result; the calls of the
\* invocation are then those of the completing execution plus those of the
\* earlier executions that failed or were lost before being recorded.
C1_ReplayMakesNoCall ==
    [][\A i \in InvIds :
          StepCompleted(i) =>
             /\ inv'[i].calls = inv[i].calls
             /\ inv'[i].journal = inv[i].journal
             /\ inv'[i].pc = "done" => inv'[i].response = inv[i].journal[1].result]_vars

\* C1 witness: a step completed in an earlier execution, and a later
\* execution replayed it to the end without calling the client
C1_Witness ==
    \E i \in InvIds :
       /\ inv[i].pc = "done" /\ StepCompleted(i)
       /\ inv[i].attempt > 1 /\ inv[i].execCalls = 0 /\ inv[i].stepCalls = 1
       /\ inv[i].response = inv[i].journal[1].result

\* C2: a storage-client call is in progress only inside the checkpointed
\* step of the handler.
C2_CallsOnlyInStep ==
    \A i \in InvIds : inv[i].inCall => inv[i].inStep /\ inv[i].pc = "calling"

\* C2 witness: a client call in progress, inside a step
C2_Witness ==
    \E i \in InvIds : inv[i].inCall /\ inv[i].inStep /\ inv[i].call.fn = "rename_async"

SevenHandlers == {"copy", "delete", "get", "head", "list", "put", "rename"}

\* C3: once the service is created, the seven handlers are registered in
\* both modes; sign is registered in Unbound mode, and in Bound mode exactly
\* when the configured store is an Azure, GCS or S3 store; the registration
\* never changes afterwards.
C3_SignRegisteredIffCapable ==
    /\ [](phase = "serving" =>
            /\ SevenHandlers \subseteq handlers
            /\ handlers \subseteq SevenHandlers \cup {"sign"}
            /\ executor.mode \in {"bound", "unbound"}
            /\ executor.mode = "unbound" => "sign" \in handlers
            /\ executor.mode = "bound" =>
                  ("sign" \in handlers <=>
                     executor.store.cls \in {"AzureStore", "GCSStore", "S3Store"}))
    /\ [][phase = "serving" => handlers' = handlers /\ phase' = "serving"]_vars

\* C3 witness: a Bound service on a local store, where a call of sign finds
\* no handler
C3_Witness ==
    /\ phase = "serving" /\ executor.mode = "bound"
    /\ executor.store.cls = "LocalStore" /\ "sign" \notin handlers
    /\ \E i \in InvIds : inv[i].op = "sign" /\ inv[i].response.kind = "NoHandler"


Mode == executor.mode
Capable(cls) == cls \in {"AzureStore", "GCSStore", "S3Store"}

C5_StoreHandlePerRequest ==
    /\ Mode = "bound" =>
          \A i \in InvIds :
             /\ inv[i].used \subseteq {executor.store.id}
             /\ inv[i].calls > 0 => inv[i].used = {executor.store.id}
             /\ inv[i].inCall => inv[i].store = executor.store
             /\ inv[i].creates = 0
    /\ Mode = "unbound" =>
          \A i \in InvIds :
             /\ inv[i].used \subseteq inv[i].made
             /\ inv[i].inCall => inv[i].store.id \in inv[i].made
             /\ inv[i].inCall => inv[i].store.url = inv[i].payload["url"].s[1]
             /\ Cardinality(inv[i].made) = inv[i].creates
             /\ \A j \in InvIds \ {i} : inv[i].used \cap inv[j].used = {}

\* C5 witness: two Unbound requests with different urls, each having worked
\* on a store of its own
C5_Witness ==
    /\ Mode = "unbound"
    /\ \E i, j \in InvIds :
          /\ inv[i].used # {} /\ inv[j].used # {}
          /\ inv[i].payload["url"] # inv[j].payload["url"]
          /\ inv[i].inCall /\ inv[j].pc = "stepdone"

\* the fields the requests of an operation must carry
Required(mode, op) ==
    (CASE op \in {"copy", "rename"} -> {"from", "to"}
       [] op = "delete" -> {"paths"}
       [] op \in {"get", "head"} -> {"path"}
       [] op \in {"list", "put"} -> {}
       [] op = "sign" -> {"method", "paths", "expires_in"})
    \cup (IF mode = "unbound" THEN {"url"} ELSE {})

\* a payload with a required field missing, a location that is not a
\* string, or (Unbound) a url that is not one
Malformed(mode, op, payload) ==
    \/ ~(Required(mode, op) \subseteq DOMAIN payload)
    \/ "path" \in DOMAIN payload /\ payload["path"].t # "str"
    \/ mode = "unbound" /\ "url" \in DOMAIN payload /\ payload["url"] = JStr("not a url")

\* C6: a request that fails validation ends with a validation error, and no
\* store was resolved and no client call was made for it.
C6_ValidationBeforeStore ==
    \A i \in InvIds :
       (inv[i].pc # "idle" /\ inv[i].op \in handlers
          /\ Malformed(Mode, inv[i].op, inv[i].payload)) =>
             /\ inv[i].pc = "done"
             /\ inv[i].response.kind = "ValidationError"
             /\ inv[i].attempt = 0
             /\ inv[i].creates = 0 /\ inv[i].calls = 0 /\ inv[i].used = {}

\* C6 witness: an Unbound request with an unparsable url, rejected
C6_Witness ==
    \E i \in InvIds :
       /\ Mode = "unbound" /\ inv[i].pc = "done"
       /\ "url" \in DOMAIN inv[i].payload
       /\ inv[i].payload["url"] = JStr("not a url")
       /\ inv[i].response.kind = "ValidationError"

\* C7: a request carrying a field its schema does not declare is rejected at
\* validation and never dispatched.
C7_UnknownFieldRejected ==
    \A i \in InvIds :
       (inv[i].pc # "idle" /\ inv[i].op \in handlers
          /\ ~(DOMAIN inv[i].payload \subseteq Keys(Schema(Mode, inv[i].op)))) =>
             /\ inv[i].pc = "done"
             /\ inv[i].response.kind = "ValidationError"
             /\ inv[i].calls = 0

\* what a copy or rename payload asks for: overwrite, true when left out
AsksOverwrite(payload) ==
    IF "overwrite" \in DOMAIN payload THEN payload["overwrite"] = JBool(TRUE) ELSE TRUE

\* C9: copy and rename pass the request's source, destination and overwrite
\* (true when omitted) to the client unchanged; a copy with overwrite=false
\* whose destination exists (and whose source does) ends in a conflict error
\* and leaves the backend as it was; a copy with overwrite omitted replaces
\* the destination by the source.
C9_CopyOverwritePolicy ==
    /\ [](\A i \in InvIds :
            (inv[i].pc = "calling" /\ inv[i].op \in {"copy", "rename"}) =>
               /\ inv[i].call.fn = (IF inv[i].op = "copy" THEN "copy_async" ELSE "rename_async")
               /\ inv[i].call.src = inv[i].payload["from"].s[1]
               /\ inv[i].call.dst = inv[i].payload["to"].s[1]
               /\ inv[i].call.overwrite = AsksOverwrite(inv[i].payload))
    /\ [][\A i \in InvIds :
            (ClientComplete(i) /\ inv[i].op = "copy") =>
               LET now == objects[inv[i].store.url]
                   src == inv[i].payload["from"].s[1]
                   dst == inv[i].payload["to"].s[1]
               IN  (now[src] # Absent /\ now[dst] # Absent) =>
                      IF AsksOverwrite(inv[i].payload)
                         THEN /\ inv'[i].outcome = None
                              /\ objects'[inv[i].store.url][dst] = now[src]
                         ELSE /\ inv'[i].outcome = Err("AlreadyExistsError", dst)
                              /\ objects' = objects]_vars

\* C9 witness: a copy with overwrite=false refused, the destination still
\* holding what it held
C9_Witness ==
    \E i \in InvIds :
       /\ inv[i].op = "copy" /\ inv[i].pc = "stepdone"
       /\ "overwrite" \in DOMAIN inv[i].payload
       /\ inv[i].payload["overwrite"] = JBool(FALSE)
       /\ inv[i].outcome = Err("AlreadyExistsError", "b")
       /\ objects[S3]["b"] = "v2" /\ objects[S3]["a"] = "v1"

\* the store a request is served from
ServedUrl(i) == IF Mode = "bound" THEN executor.store.url ELSE inv[i].payload["url"].s[1]

\* the expiry a sign payload asks for, in seconds
AsksSeconds(payload) ==
    IF payload["expires_in"].t = "num" THEN payload["expires_in"].n
    ELSE DurationSeconds(payload["expires_in"].s[1])

\* a sign result mirrors the payload: a single path gives a single URL, a
\* sequence of N paths gives N URLs, the k-th the signature of the k-th path
\* with the payload's method and expiry
Mirrors(i, res) ==
    LET paths == inv[i].payload["paths"]
    IN  /\ res.shape = (IF paths.t = "str" THEN "scalar" ELSE "seq")
        /\ Len(res.items) = Len(paths.s)
        /\ \A k \in 1..Len(paths.s) :
              res.items[k] = Item(ServedUrl(i), inv[i].payload["method"].s[1],
                                  paths.s[k], AsksSeconds(inv[i].payload), "")

\* C10: the value a sign step returns on a sign-capable store, and the
\* response of the invocation, mirror the shape and the order of the
\* request's paths.
C10_SignMirrorsPaths ==
    \A i \in InvIds :
       inv[i].op = "sign" =>
          /\ inv[i].pc = "stepdone" /\ inv[i].outcome.kind = "ok" => Mirrors(i, inv[i].outcome)
          /\ StepCompleted(i) => Mirrors(i, inv[i].journal[1].result)
          /\ inv[i].pc = "done" /\ inv[i].response.kind = "ok" => Mirrors(i, inv[i].response)

\* C10 witness: a sign of the sequence b, a answered with two URLs, b first
C10_Witness ==
    \E i \in InvIds :
       /\ inv[i].op = "sign" /\ inv[i].pc = "done"
       /\ inv[i].response.shape = "seq" /\ Len(inv[i].response.items) = 2
       /\ inv[i].response.items[1].path = "b" /\ inv[i].response.items[2].path = "a"
       /\ inv[i].response.items[1].method = "PUT" /\ inv[i].response.items[1].exp = 60


\* the rename request {from: x, to: y, overwrite: true} of invocation j has
\* been answered with success
RenameDone(j, x, y) ==
    /\ inv[j].op = "rename"
    /\ inv[j].pc = "done"
    /\ inv[j].response.kind = "ok"
    /\ inv[j].request.from_.s[1] = x
    /\ inv[j].request.to.s[1] = y
    /\ inv[j].request.overwrite.s[1] = "true"

\* in this step the client answers the head call of invocation i
HeadAnswered(i) ==
    /\ inv[i].op = "head"
    /\ inv[i].pc = "calling"
    /\ inv'[i].pc = "stepdone"
    /\ inv'[i].outcome.kind # "GenericError"

\* in this step the client carries out the call of a rename of invocation j
RenameApplied(j) ==
    /\ inv[j].op = "rename"
    /\ inv[j].pc = "calling"
    /\ inv'[j].pc = "stepdone"
    /\ inv'[j].outcome.kind = "ok"

\* an execution of a rename makes one client call, and it is rename_async
RenameIsOneCall ==
    \A j \in InvIds :
        inv[j].op = "rename" =>
            /\ inv[j].execCalls <= 1
            /\ inv[j].pc = "calling" => inv[j].call.fn = "rename_async"

\* the source's content is never seen at both locations of one backend
NeverAtBoth ==
    \A u \in StoreUrls : ~(objects[u]["a"] # Absent /\ objects[u]["b"] = objects[u]["a"])

\* C11: where x exists, a completed rename {from: x, to: y, overwrite: true}
\* followed by head x and head y, with nothing but heads and renames of x in
\* between, gives not-found for x and the metadata of the object that was at x
\* for y; the rename is one rename_async call, which moves the object in one
\* step of the backend, so that no state shows it at both x and y.
C11_RenameThenHead ==
    /\ []RenameIsOneCall
    /\ []NeverAtBoth
    /\ [][\A j \in InvIds :
            RenameApplied(j) =>
                LET u == inv[j].store.url
                    x == inv[j].call.src
                    y == inv[j].call.dst
                IN  /\ objects[u][x] # Absent
                    /\ objects'[u][y] = objects[u][x]
                    /\ objects'[u][x] = Absent]_vars
    /\ [][\A i, j \in InvIds :
            (HeadAnswered(i) /\ RenameDone(j, "a", "b")) =>
                /\ inv[i].call.src = "a" => inv'[i].outcome = Err("NotFoundError", "a")
                /\ inv[i].call.src = "b" =>
                      inv'[i].outcome = Ok("scalar", <<Item("", "", "b", 0, Seed(Absent)["a"])>>)]_vars

\* a rename was answered with success and a later head of y returned the
\* metadata of the object that was at x
C11_Witness ==
    /\ RenameDone(1, "a", "b")
    /\ inv[2].op = "head"
    /\ inv[2].pc = "done"
    /\ inv[2].response = Ok("scalar", <<Item("", "", "b", 0, Seed(Absent)["a"])>>)
    /\ objects[S3]["a"] = Absent


\* the execution of the step of invocation i ended with an exception
StepFailed(i) == inv[i].pc = "stepdone" /\ inv[i].outcome.kind # "ok"

\* the caller of invocation i has been answered with a failure
FailureDelivered(i) == inv[i].pc = "done" /\ inv[i].response.kind # "ok"

\* C12 (as stated): a failure raised while a handler runs is eventually
\* surfaced to the caller: the invocation whose step failed ends, and it ends
\* with a failure, not with a success and not pending for ever.
C12_FailureSurfaced ==
    \A i \in InvIds : StepFailed(i) ~> FailureDelivered(i)


OpNames == {"copy", "delete", "get", "head", "list", "put", "rename", "sign"}

\* the handler of invocation i has been started
Invoked(i) == inv[i].attempt > 0

\* C13: a handler that runs issues one checkpointed step, named after its
\* operation: the statement it is at is that step, a step in progress is
\* that step, the journal holds at most one entry and it has that name, an
\* attempt that got past the step has it recorded under that name, and a
\* replay asks for the step under the name it was recorded with; the steps
\* are the same in Bound and Unbound mode.
C13_OneStepNamedAfterOp ==
    /\ \A op \in OpNames :
          /\ HandlerBody("bound", op) = HandlerBody("unbound", op)
          /\ Len(HandlerBody("bound", op)) = 1
    /\ \A i \in InvIds :
          Invoked(i) =>
             /\ inv[i].op \in OpNames
             /\ Len(Body(i)) = 1
             /\ Body(i)[1].kind = "run_typed" /\ Body(i)[1].name = inv[i].op
             /\ inv[i].ip \in {1, 2}
             /\ inv[i].pc \in {"calling", "stepdone"} => inv[i].inStep /\ inv[i].ip = 1
             /\ inv[i].inStep => Body(i)[inv[i].ip].name = inv[i].op
             /\ Len(inv[i].journal) <= 1
             /\ \A k \in DOMAIN inv[i].journal : inv[i].journal[k].name = inv[i].op
             /\ inv[i].ip = 2 => Len(inv[i].journal) = 1
             /\ (inv[i].pc = "handler" /\ inv[i].ip = 1 /\ inv[i].journal # <<>>) =>
                   Body(i)[1].name = inv[i].journal[1].name

\* a rename in Unbound mode whose step was recorded under "rename" and whose
\* later attempt replayed it by that name
C13_Witness ==
    \E i \in InvIds :
       /\ Mode = "unbound" /\ inv[i].op = "rename"
       /\ inv[i].attempt > 1 /\ inv[i].ip = 2
       /\ inv[i].journal = << [name |-> "rename", result |-> None] >>
       /\ inv[i].result = None /\ inv[i].execCalls = 0


\* invocation i is in an execution of its step: the executor was called and
\* the host has not yet taken the outcome
Executing(i) == inv[i].inStep /\ inv[i].pc \in {"calling", "stepdone"}

\* in Unbound mode every execution of a step has called factory.create once,
\* and made a client call only on the store that call returned
CreateOncePerExecution ==
    \A i \in InvIds :
       (Mode = "unbound" /\ Invoked(i)) =>
          /\ inv[i].execCreates <= 1
          /\ inv[i].execCalls <= inv[i].execCreates
          /\ inv[i].calls <= inv[i].creates
          /\ Executing(i) => inv[i].execCreates = 1
          /\ inv[i].pc = "calling" =>
                /\ inv[i].store.id \in inv[i].made
                /\ inv[i].store.url = inv[i].request.url.s[1]
          /\ (Executing(i) /\ inv[i].op \in {"get", "list", "put"}
                /\ StoreClass(inv[i].request.url.s[1]) # "") =>
                /\ inv[i].execCalls = 0 /\ inv[i].pc = "stepdone"
                /\ inv[i].outcome = Err("NotImplementedError", "")
          /\ (Executing(i) /\ inv[i].op = "sign"
                /\ StoreClass(inv[i].request.url.s[1]) # ""
                /\ ~Capable(StoreClass(inv[i].request.url.s[1]))) =>
                /\ inv[i].execCalls = 0 /\ inv[i].pc = "stepdone"
                /\ inv[i].outcome.kind = "ValueError"
          /\ StoreClass(inv[i].request.url.s[1]) = "" =>
                /\ inv[i].calls = 0
                /\ Executing(i) => inv[i].outcome.kind = "GenericError"

\* C14: in Unbound mode each execution of a step calls factory.create once,
\* before any client call and for every operation: get, list and put then
\* raise NotImplementedError, and sign on a store that cannot sign raises
\* ValueError, with no client call; when factory.create fails the execution
\* makes no client call; once the step is recorded, a replay calls
\* factory.create no more.
C14_ResolutionInsideStep ==
    /\ []CreateOncePerExecution
    /\ [][\A i \in InvIds :
            (Mode = "unbound" /\ StepCompleted(i)) =>
                /\ inv'[i].creates = inv[i].creates
                /\ inv'[i].made = inv[i].made]_vars
    /\ [][\A i \in InvIds :
            (Mode = "unbound" /\ inv'[i].calls > inv[i].calls) =>
                inv'[i].creates = inv[i].creates + 1]_vars

\* a get in Unbound mode, run a second time: each execution resolved the
\* store and raised without a client call
C14_Witness ==
    \E i \in InvIds :
       /\ Mode = "unbound" /\ inv[i].op = "get"
       /\ inv[i].attempt = 2 /\ inv[i].pc = "stepdone"
       /\ inv[i].creates = 2 /\ inv[i].execCreates = 1
       /\ inv[i].calls = 0
       /\ inv[i].outcome = Err("NotImplementedError", "")

=============================================================================
